---- MODULE Spec2Model ----
(***************************************************************************)
(* A model of the merge-and-persist entry model of oak-catalog:            *)
(*   - EntryData and its variants (entry_data.py),                         *)
(*   - EntryData.merge, the field-by-field reconciliation,                 *)
(*   - the text codec of Folder (write_markdown / read_markdown,           *)
(*     write_entry / read_entry, folder.py).                               *)
(*                                                                         *)
(* Python values are tagged records: None, str, list, set.  A str is a     *)
(* sequence of chunks; a chunk is a run of characters that str.strip and   *)
(* str.split treat as a unit: the whitespace chunk " ", the delimiter line *)
(* "---\n" or a word.  A list holds strings as opaque elements.            *)
(*                                                                         *)
(* A record (a pydantic model instance) is a function from the field names *)
(* of its class to values.  The field lists are a representative subset of *)
(* the declared fields, in declaration order.  Both operands of a merge    *)
(* are instances of the same class, as in Folder.save_entry, which reads   *)
(* the stored record with entry.__class__.                                 *)
(***************************************************************************)
EXTENDS Naturals, Sequences, FiniteSets, TLC

VARIABLES
    phase,        \* position of the driver: "ready", then "merged" / "written" / "read"
    cls,          \* the class of the records at hand
    target,       \* self of EntryData.merge; the record given to write_entry
    target0,      \* the value of target before the call
    entry,        \* the incoming record of a merge or a save; the keyword
                  \* arguments of a construction
    selfMerge,    \* TRUE when the incoming record is the target object itself
    protArg,      \* the protected argument: "None", "own" (target.protected_fields) or "caller"
    callerList,   \* the list a caller passes: as protected, or as top_attributes
    callerList0,  \* its value before the call
    prevent,      \* the prevent_overwrite argument (not overwrite, for CatalogEntry.merge)
    outcome,      \* "none", "True", "False" (returned) or the exception raised
    reported,     \* fields for which a prevented overwrite was printed
    file,         \* the text of the file: "missing" or a sequence of chunks
    decoded,      \* the record returned by read_entry
    store,        \* the files of a folder: a function from filenames to texts
    filename,     \* the filename of the latest save_entry call
    before,       \* the text of that file before the call ("missing" if none)
    first,        \* for each filename, the text its first write left on disk
    saves,        \* the number of save_entry calls made
    dirs,         \* the directories that exist on disk
    folders,      \* the paths of the Folder objects constructed
    created,      \* the paths an explicit create() or create=True was applied to
    shared,       \* the fields whose list object target and entry both refer to
    collected,    \* the (cover_bytes, record) pairs the collectors yield, in order
    yielded,      \* the number of those pairs the build has taken
    override,     \* the override_images argument of the build
    entries,      \* OakCatalog.entries: the record indexed under each entry_id
    saveCalls,    \* the save calls OakCatalog.build has made, in order
    images        \* the cover files in the image folder, each with its content

storeVars == <<store, filename, before, first, saves>>

folderVars == <<dirs, folders, created>>

buildVars == <<collected, yielded, override, entries, saveCalls, images>>

vars == <<phase, cls, target, target0, entry, selfMerge, protArg, callerList,
          callerList0, prevent, outcome, reported, file, decoded,
          storeVars, folderVars, shared, buildVars>>

\* no folder is in use
NoStore ==
    store = <<>> /\ filename = <<>> /\ before = "missing" /\ first = <<>> /\ saves = 0

NoFolders == dirs = {} /\ folders = {} /\ created = {}

\* no list object is shared between two records
NoSharing == shared = {}

\* no catalog is being built
NoBuild ==
    /\ collected = <<>> /\ yielded = 0 /\ override = FALSE
    /\ entries = <<>> /\ saveCalls = <<>> /\ images = <<>>

(***************************************************************************)
(* Bounds of the model.                                                    *)
(***************************************************************************)
\* longest topics list drawn for a record
MaxListLen == 2
\* most whitespace chunks put before or after a word of a drawn string
MaxPad == 1

(***************************************************************************)
(* Python values.                                                          *)
(***************************************************************************)
None == [tag |-> "None"]

Str(chunks) == [tag |-> "str", val |-> chunks]

List(items) == [tag |-> "list", val |-> items]

\* a datetime.date
Date(d) == [tag |-> "date", val |-> d]

Range(s) == {s[i] : i \in 1..Len(s)}

\* bool(v)
Truthy(v) ==
    CASE v.tag = "None" -> FALSE
      [] v.tag = "str"  -> v.val # <<>>
      [] v.tag = "list" -> v.val # <<>>
      [] v.tag = "set"  -> v.val # {}
      [] v.tag = "dict" -> DOMAIN v.val # {}
      [] OTHER          -> TRUE

\* a == b; values of different types are unequal, lists compare in order
PyEq(a, b) == a.tag = b.tag /\ a = b

\* set(v) if v is a list, else v
AsSet(v) == IF v.tag = "list" THEN [tag |-> "set", val |-> Range(v.val)] ELSE v

(***************************************************************************)
(* The record classes of entry_data.py.                                    *)
(***************************************************************************)
Classes == {"LinkEntryData", "AudiobookEntryData", "BookEntryData", "ListEntryData"}

\* EntryData: the declared fields (a subset), in declaration order
EntryDataFields == <<"entry_id", "entry_type", "format", "title", "description">>

\* ContentEntryData
ContentEntryDataFields ==
    EntryDataFields \o
        <<"theme", "topics", "tags", "entry_creation_date", "source", "protected_fields">>

\* cls.model_fields.keys()
Fields(c) ==
    CASE c = "LinkEntryData"      -> ContentEntryDataFields \o <<"url", "domain">>
      [] c = "AudiobookEntryData" -> ContentEntryDataFields \o <<"asin">>
      [] c = "BookEntryData"      -> ContentEntryDataFields \o <<"isbn">>
      [] c = "ListEntryData"      ->
             EntryDataFields \o <<"type_count", "protected_fields", "list_items">>

FieldSet(c) == Range(Fields(c))

\* the default_factory of protected_fields of each class
DefaultProtected(c) ==
    CASE c = "LinkEntryData"      -> <<"entry_id", "entry_type", "protected_fields", "url">>
      [] c = "AudiobookEntryData" ->
             <<"entry_id", "entry_type", "protected_fields", "asin",
               "tags", "theme", "summary", "description">>
      [] c = "BookEntryData"      ->
             <<"entry_id", "entry_type", "protected_fields", "isbn",
               "tags", "theme", "summary", "description">>
      [] c = "ListEntryData"      -> <<"entry_id", "entry_type", "protected_fields">>

\* a required field that the constructor was not given
Missing == [tag |-> "Missing"]

\* the declared default of field f of class c
Default(c, f) ==
    CASE f \in {"entry_id", "entry_type", "title", "url", "domain"} -> Missing
      [] f \in {"topics", "tags", "list_items"} -> List(<<>>)
      [] f = "type_count"       -> [tag |-> "dict", val |-> <<>>]
      [] f = "protected_fields" -> List(DefaultProtected(c))
      [] f = "entry_creation_date" -> Date("today")
      [] OTHER                  -> None

\* c(**kw) before validation: the given values, defaults elsewhere; a key that
\* is no field of c is ignored
Make(c, kw) == [f \in FieldSet(c) |-> IF f \in DOMAIN kw THEN kw[f] ELSE Default(c, f)]

(***************************************************************************)
(* EntryData.merge                                                         *)
(***************************************************************************)
\* the list object bound to `protected` after lines 64-65 is the target's own
\* protected_fields list (an alias, not a copy)
MergeAliasesOwn(self, arg) ==
    \/ arg = "own"
    \/ arg = "None" /\ Truthy(self["protected_fields"])

\* the contents of `protected` after lines 64-67
MergeProtected(self, arg, caller) ==
    LET given == CASE arg = "caller" -> caller
                   [] MergeAliasesOwn(self, arg) -> self["protected_fields"].val
                   [] OTHER -> <<>>
    IN IF "protected_fields" \in Range(given)
       THEN given
       ELSE given \o <<"protected_fields">>

\* line 69: entry.entry_id and entry.entry_id != self.entry_id
MergeGuardFails(self, e) ==
    Truthy(e["entry_id"]) /\ ~PyEq(e["entry_id"], self["entry_id"])

\* a merge that honours only the implicitly protected names
IsProtectedImplicitOnly(field, protected) ==
    field \in Range(protected) \cap {"entry_id", "entry_type", "protected_fields"}

\* line 84: field in protected
IsProtected(field, protected) == field \in Range(protected)

\* a merge that decides by truthiness: an empty incoming value is no difference
DiffersTruthy(other, this) == Truthy(other) /\ ~PyEq(other, this)

\* line 86: getattr(entry, field) != getattr(self, field)
Differs(other, this) == ~PyEq(other, this)

\* a merge that never stores an empty value
SetAttrKeepsSet(obj, field, value) ==
    IF Truthy(value) THEN [obj EXCEPT ![field] = value] ELSE obj

\* line 87: setattr(self, field, value)
SetAttr(obj, field, value) == [obj EXCEPT ![field] = value]

\* lines 74-83: the prevented overwrite is printed
Reports(this, other, po) ==
    /\ Truthy(this)
    /\ Truthy(AsSet(other))
    /\ ~PyEq(AsSet(this), AsSet(other))
    /\ po

\* a loop in which the flag keeps the reported fields from being overwritten
RECURSIVE MergeLoopPrevents(_, _, _, _, _, _)
MergeLoopPrevents(st, e, same, protected, po, fields) ==
    IF fields = <<>>
    THEN st
    ELSE LET f     == Head(fields)
             this  == st.obj[f]
             other == IF same THEN st.obj[f] ELSE e[f]
             st1   == IF Reports(this, other, po)
                      THEN [st EXCEPT !.reported = @ \cup {f}]
                      ELSE st
             st2   == IF /\ ~IsProtected(f, protected)
                         /\ Differs(other, this)
                         /\ ~Reports(this, other, po)
                      THEN [st1 EXCEPT !.obj = SetAttr(@, f, other), !.changed = TRUE]
                      ELSE st1
         IN MergeLoopPrevents(st2, e, same, protected, po, Tail(fields))

\* lines 72-89: the loop over the fields, from the state st
RECURSIVE MergeLoop(_, _, _, _, _, _)
MergeLoop(st, e, same, protected, po, fields) ==
    IF fields = <<>>
    THEN st
    ELSE LET f     == Head(fields)
             this  == st.obj[f]
             other == IF same THEN st.obj[f] ELSE e[f]
             st1   == IF Reports(this, other, po)
                      THEN [st EXCEPT !.reported = @ \cup {f}]
                      ELSE st
             st2   == IF ~IsProtected(f, protected) /\ Differs(other, this)
                      THEN [st1 EXCEPT !.obj = SetAttr(@, f, other), !.changed = TRUE]
                      ELSE st1
         IN MergeLoop(st2, e, same, protected, po, Tail(fields))

\* line 87 binds the target's field to the very object the incoming record
\* holds: the list-valued fields the loop copies are shared afterwards
SharedLists(self, e, same, protected, fields) ==
    { f \in Range(fields) :
        /\ ~same
        /\ ~IsProtected(f, protected)
        /\ Differs(e[f], self[f])
        /\ e[f].tag = "list" }

\* target.merge(entry, prevent_overwrite=prevent, protected=...)
Merge ==
    /\ phase = "ready"
    /\ LET prot  == MergeProtected(target, protArg, callerList)
           self1 == IF MergeAliasesOwn(target, protArg)
                    THEN [target EXCEPT !["protected_fields"] = List(prot)]
                    ELSE target
           res   == MergeLoop([obj |-> self1, changed |-> FALSE, reported |-> {}],
                              entry, selfMerge, prot, prevent, Fields(cls))
       IN /\ callerList' = IF protArg = "caller" THEN prot ELSE callerList
          /\ IF MergeGuardFails(self1, IF selfMerge THEN self1 ELSE entry)
             THEN /\ target' = self1
                  /\ outcome' = "ValueError"
                  /\ reported' = {}
                  /\ shared' = shared
             ELSE /\ target' = res.obj
                  /\ outcome' = IF res.changed THEN "True" ELSE "False"
                  /\ reported' = res.reported
                  /\ shared' = shared \cup SharedLists(self1, entry, selfMerge, prot, Fields(cls))
          /\ entry' = IF selfMerge THEN target' ELSE entry
    /\ phase' = "merged"
    /\ UNCHANGED <<cls, target0, selfMerge, protArg, callerList0, prevent, file, decoded,
                   storeVars, folderVars, buildVars>>

(***************************************************************************)
(* The values the records are drawn from.                                  *)
(***************************************************************************)
\* the one-word string
W(word) == Str(<<word>>)

\* the items lists are made of
Items == <<"a", "b", "c", "d">>

Reverse(s) == [i \in 1..Len(s) |-> s[Len(s) + 1 - i]]

\* the first n items, in order
Prefix(n) == SubSeq(Items, 1, n)

\* lists of at most n items, in declaration order
ListsInOrder(n) == {List(Prefix(k)) : k \in 0..n}

\* the same lists, in either order
ListsAnyOrder(n) == ListsInOrder(n) \cup {List(Reverse(Prefix(k))) : k \in 0..n}

\* the entry_type a collector gives a record of class c
TypeOf(c) ==
    CASE c = "LinkEntryData"      -> W("link")
      [] c = "AudiobookEntryData" -> W("audiobook")
      [] c = "BookEntryData"      -> W("book")
      [] c = "ListEntryData"      -> W("list")

\* the fields every drawn record is given besides the drawn ones
Fixed(c) == [url |-> W("u"), domain |-> W("dom")]

\* kw overriding base
Over(base, kw) == [f \in DOMAIN base \cup DOMAIN kw |-> IF f \in DOMAIN kw THEN kw[f] ELSE base[f]]

(***************************************************************************)
(* The merge specification: a target, an incoming record and the arguments *)
(* of one call of EntryData.merge.                                         *)
(***************************************************************************)
MergeClasses == {"BookEntryData", "ListEntryData"}

\* stored protected_fields lists: empty, hand-written, the class default
ProtectedLists(c) == {List(<<>>), List(<<"theme">>), List(DefaultProtected(c))}

\* lists a caller passes as protected
CallerLists == {<<>>, <<"entry_id", "entry_type", "protected_fields", "title">>}

MergeTargets(c) ==
    { Make(c, Over(Fixed(c),
              [entry_id |-> W("x"), entry_type |-> TypeOf(c), title |-> W("t"),
               description |-> d, theme |-> th, topics |-> tp,
               protected_fields |-> pf])) :
        d \in {None, W("d")}, th \in {None, W("h")},
        tp \in ListsInOrder(MaxListLen), pf \in ProtectedLists(c) }

\* an incoming record may carry an empty entry_id (line 69 lets it through)
MergeIncoming(c) ==
    { Make(c, Over(Fixed(c),
              [entry_id |-> id, entry_type |-> ty, title |-> ti,
               description |-> d, theme |-> th, topics |-> tp])) :
        id \in {Str(<<>>), W("x"), W("y")}, ty \in {TypeOf(c), W("audiobook")},
        ti \in {W("t"), W("u")}, d \in {None, W("d")}, th \in {None, W("h")},
        tp \in ListsAnyOrder(MaxListLen) }

InitMerge ==
    /\ phase = "ready"
    /\ cls \in MergeClasses
    /\ target \in MergeTargets(cls)
    /\ target0 = target
    /\ selfMerge \in BOOLEAN
    /\ entry \in IF selfMerge THEN {target} ELSE MergeIncoming(cls)
    /\ protArg \in {"None", "own", "caller"}
    /\ callerList \in IF protArg = "caller" THEN CallerLists ELSE {<<>>}
    /\ callerList0 = callerList
    /\ prevent \in BOOLEAN
    /\ outcome = "none"
    /\ reported = {}
    /\ file = "missing"
    /\ decoded = None
    /\ NoStore
    /\ NoFolders
    /\ NoSharing
    /\ NoBuild

NextMerge == Merge

SpecMerge == InitMerge /\ [][NextMerge]_vars

(***************************************************************************)
(* The text codec of Folder.  The text of a file is a sequence of chunks:  *)
(* a text chunk (the delimiter line "---\n", the whitespace " ", a word)   *)
(* or one line of the YAML header, holding a key and its value.            *)
(***************************************************************************)
Text(w) == [kind |-> "text", text |-> w]

YamlLine(k, v) == [kind |-> "yaml", key |-> k, value |-> v]

Delimiter == Text("---\n")

IsDelimiter(chunk) == chunk.kind = "text" /\ chunk.text = "---\n"

IsSpace(w) == w \in {" ", "\n"}

\* s.strip(), on the chunks of a string
RECURSIVE LStrip(_)
LStrip(s) == IF s # <<>> /\ IsSpace(Head(s)) THEN LStrip(Tail(s)) ELSE s

Strip(s) == Reverse(LStrip(Reverse(LStrip(s))))

\* a dump that leaves out the fields that are None
ModelDumpSetOnly(c, obj) ==
    SelectSeq([i \in 1..Len(Fields(c)) |-> <<Fields(c)[i], obj[Fields(c)[i]]>>],
              LAMBDA p : p[2] # None)

\* entry.model_dump(): the fields and their values, in declaration order
ModelDump(c, obj) == [i \in 1..Len(Fields(c)) |-> <<Fields(c)[i], obj[Fields(c)[i]]>>]

\* del frontmatter[key]
DelKey(pairs, key) == SelectSeq(pairs, LAMBDA p : p[1] # key)

\* a reordering that puts the top keys in the order top_attributes lists them
ReorderedAsListed(pairs, top) ==
    [i \in 1..Len(SelectSeq(top, LAMBDA k : \E j \in 1..Len(pairs) : pairs[j][1] = k)) |->
        LET k == SelectSeq(top, LAMBDA t : \E j \in 1..Len(pairs) : pairs[j][1] = t)[i]
        IN CHOOSE p \in Range(pairs) : p[1] = k]
        \o SelectSeq(pairs, LAMBDA p : p[1] \notin Range(top))

\* lines 196-205: the keys of top_attributes first, each part in input order
Reordered(pairs, top) ==
    SelectSeq(pairs, LAMBDA p : p[1] \in Range(top))
        \o SelectSeq(pairs, LAMBDA p : p[1] \notin Range(top))

\* yaml.dump(frontmatter, sort_keys=False): one line per key, in order
YamlDump(pairs) == [i \in 1..Len(pairs) |-> YamlLine(pairs[i][1], pairs[i][2])]

\* the text chunks of a str
TextOf(chunks) == [i \in 1..Len(chunks) |-> Text(chunks[i])]

\* lines 213-218: the text write_markdown writes
WriteMarkdown(pairs, content, top) ==
    <<Delimiter>> \o YamlDump(Reordered(pairs, top)) \o <<Delimiter>>
        \o (IF Truthy(content) THEN TextOf(content.val) ELSE <<>>)

\* lines 279-283: the text write_entry writes for entry
WriteEntryText(c, obj, top) ==
    WriteMarkdown(DelKey(ModelDump(c, obj), "description"), obj["description"], top)

\* raw.split('---\n'): the segments between the delimiter chunks
RECURSIVE SplitOn(_, _)
SplitOn(raw, cur) ==
    IF raw = <<>>
    THEN <<cur>>
    ELSE IF IsDelimiter(Head(raw))
         THEN <<cur>> \o SplitOn(Tail(raw), <<>>)
         ELSE SplitOn(Tail(raw), Append(cur, Head(raw)))

\* the characters of text chunks
ChunksOf(chunks) == [i \in 1..Len(chunks) |-> chunks[i].text]

\* '---\n'.join(segments), as the chunks of a str
RECURSIVE JoinOn(_)
JoinOn(segs) ==
    IF segs = <<>> THEN <<>>
    ELSE IF Len(segs) = 1 THEN ChunksOf(segs[1])
    ELSE ChunksOf(segs[1]) \o <<"---\n">> \o JoinOn(Tail(segs))

\* yaml.safe_load of a header block parses when the block holds header lines only
YamlParses(block) == block # <<>> /\ \A i \in 1..Len(block) : block[i].kind = "yaml"

\* line 250: v.strip() if isinstance(v, str) else v
StripValue(v) == IF v.tag = "str" THEN Str(Strip(v.val)) ELSE v

\* the last line of the block with key k
LineOf(block, k) ==
    block[CHOOSE i \in 1..Len(block) :
              block[i].key = k /\ \A j \in (i + 1)..Len(block) : block[j].key # k]

\* lines 249-252: the mapping yaml.safe_load returns, its str values stripped
YamlLoad(block) ==
    [k \in {block[i].key : i \in 1..Len(block)} |-> StripValue(LineOf(block, k).value)]

\* lines 246-257: read_markdown on the text raw
ReadMarkdown(raw) ==
    IF raw # <<>> /\ IsDelimiter(Head(raw))
    THEN LET segs == Tail(SplitOn(raw, <<>>))
             frontmatter_raw == Head(segs)
             content_raw == Tail(segs)
         IN IF YamlParses(frontmatter_raw)
            THEN [error |-> "none",
                  frontmatter |-> YamlLoad(frontmatter_raw),
                  content |-> Str(Strip(JoinOn(content_raw)))]
            ELSE [error |-> "YAMLError"]
    ELSE [error |-> "none", frontmatter |-> <<>>, content |-> Str(Strip(ChunksOf(raw)))]

(***************************************************************************)
(* Construction of a record: pydantic's validation of the keyword          *)
(* arguments against the declared field types.                             *)
(***************************************************************************)
EntryTypes == {W("link"), W("audiobook"), W("book"), W("list")}

\* a validation of the types alone: any str is an id or a title, any str an
\* entry_type
ValidFieldTypeOnly(f, v) ==
    CASE f \in {"entry_id", "title", "entry_type", "url", "domain", "source", "asin"} ->
             v.tag = "str"
      [] f \in {"topics", "tags", "list_items", "protected_fields"} -> v.tag = "list"
      [] f = "type_count" -> v.tag = "dict"
      [] f = "entry_creation_date" -> v.tag = "date"
      [] OTHER -> v.tag \in {"str", "None"}

\* the value v is accepted for field f
ValidField(f, v) ==
    CASE f \in {"entry_id", "title"} -> v.tag = "str" /\ Len(v.val) >= 1
      [] f = "entry_type" -> v \in EntryTypes
      [] f \in {"url", "domain", "source", "asin"} -> v.tag = "str"
      [] f \in {"topics", "tags", "list_items", "protected_fields"} -> v.tag = "list"
      [] f = "type_count" -> v.tag = "dict"
      [] f = "entry_creation_date" -> v.tag = "date"
      [] OTHER -> v.tag \in {"str", "None"}

\* c(**kw) validates: every given field is of its type, no required field is missing
Validates(c, kw) ==
    \A f \in FieldSet(c) :
        IF f \in DOMAIN kw THEN ValidField(f, kw[f]) ELSE Default(c, f) # Missing

\* lines 327-333: read_entry on the text raw ("missing" when there is no file)
ReadEntryResult(c, raw) ==
    IF raw = "missing"
    THEN [error |-> "none", value |-> None]
    ELSE LET md == ReadMarkdown(raw)
         IN IF md.error # "none"
            THEN [error |-> md.error]
            ELSE IF ~Validates(c, md.frontmatter)
                 THEN [error |-> "ValidationError"]
                 ELSE [error |-> "none",
                       value |-> [Make(c, md.frontmatter) EXCEPT !["description"] = md.content]]

(***************************************************************************)
(* The codec specification: one record, written by Folder.write_entry and  *)
(* read back by Folder.read_entry with the record's class.                 *)
(***************************************************************************)
\* n whitespace chunks
Pad(n) == [i \in 1..n |-> " "]

\* the word w with whitespace before and after it
PaddedStrs(w) == {Str(Pad(l) \o <<w>> \o Pad(r)) : l \in 0..MaxPad, r \in 0..MaxPad}

\* the top_attributes a caller of write_entry passes
TopChoices == {<<>>, <<"title", "entry_id">>}

\* the keyword arguments of a drawn record: source is given or left out
CodecKeywords(c) ==
    { Over(Fixed(c), Over([entry_id |-> W("x"), entry_type |-> TypeOf(c), title |-> ti,
                           description |-> d, theme |-> th, topics |-> tp], src)) :
        ti \in PaddedStrs("t"),
        d \in {None, Str(<<>>), Str(<<"d", "---\n", "e">>)} \cup PaddedStrs("d"),
        th \in {None, W("h")},
        tp \in ListsInOrder(MaxListLen),
        src \in {<<>>, [source |-> W("omnivore")], [source |-> W("omnivore"), asin |-> W("B0")]} }

CodecRecords(c) == {Make(c, kw) : kw \in {k \in CodecKeywords(c) : Validates(c, k)}}

\* folder.write_entry(filename, target, top_attributes=top)
WriteEntry ==
    /\ phase = "ready"
    /\ \E top \in TopChoices :
          /\ file' = WriteEntryText(cls, target, top)
          /\ callerList' = top
    /\ phase' = "written"
    /\ UNCHANGED <<cls, target, target0, entry, selfMerge, protArg,
                   callerList0, prevent, outcome, reported, decoded,
                   storeVars, folderVars, shared, buildVars>>

\* decoded = folder.read_entry(filename, cls)
ReadEntry ==
    /\ phase \in {"ready", "written"}
    /\ LET res == ReadEntryResult(cls, file)
       IN /\ outcome' = IF res.error = "none" THEN "returned" ELSE res.error
          /\ decoded' = IF res.error = "none" THEN res.value ELSE None
    /\ phase' = "read"
    /\ UNCHANGED <<cls, target, target0, entry, selfMerge, protArg, callerList,
                   callerList0, prevent, reported, file, storeVars, folderVars, shared, buildVars>>

InitCodec ==
    /\ phase = "ready"
    /\ cls \in Classes
    /\ target \in CodecRecords(cls)
    /\ target0 = target
    /\ entry = target
    /\ selfMerge = FALSE
    /\ protArg = "None"
    /\ callerList = <<>>
    /\ callerList0 = <<>>
    /\ prevent = FALSE
    /\ outcome = "none"
    /\ reported = {}
    /\ file = "missing"
    /\ decoded = None
    /\ NoStore
    /\ NoFolders
    /\ NoSharing
    /\ NoBuild

NextCodec == WriteEntry \/ ReadEntry

SpecCodec == InitCodec /\ [][NextCodec]_vars

(***************************************************************************)
(* The persistence store: Entry.save and Folder.save_entry on the files of *)
(* one folder.  A call reads the stored record, merges the incoming record *)
(* into it under the stored record's own protected_fields, and writes the  *)
(* result.                                                                 *)
(***************************************************************************)
\* most save_entry calls of a run
MaxSaves == 3

\* Entry.__init__: the filename of the record data
Filename(data) ==
    IF PyEq(data["entry_type"], W("list")) /\ Truthy(data["format"])
    THEN data["format"].val \o <<"_">> \o data["entry_id"].val \o <<".md">>
    ELSE data["entry_type"].val \o <<"_">> \o data["entry_id"].val \o <<".md">>

\* the text of the file named fn, "missing" when there is none
FileText(fn) == IF fn \in DOMAIN store THEN store[fn] ELSE "missing"

\* bool(obj) for a record or None: ListEntryData defines __len__ as the
\* number of its list_items, the other classes define neither __bool__ nor __len__
ObjTruthy(c, obj) ==
    IF obj = None THEN FALSE
    ELSE IF c = "ListEntryData" THEN obj["list_items"].val # <<>>
    ELSE TRUE

\* save_entry up to its write: the record read and the record to write, or
\* the exception raised
SaveEntryResult(c, raw, e, po) ==
    LET res == ReadEntryResult(c, raw)
    IN IF res.error # "none"
       THEN [error |-> res.error]
       ELSE IF ObjTruthy(c, res.value)
            THEN LET prot  == MergeProtected(res.value, "own", <<>>)
                     self1 == [res.value EXCEPT !["protected_fields"] = List(prot)]
                     m     == MergeLoop([obj |-> self1, changed |-> FALSE, reported |-> {}],
                                        e, FALSE, prot, po, Fields(c))
                 IN IF MergeGuardFails(self1, e)
                    THEN [error |-> "ValueError"]
                    ELSE [error |-> "none", read |-> res.value, merged |-> TRUE,
                          written |-> m.obj, reported |-> m.reported,
                          changed |-> m.changed]
            ELSE [error |-> "none", read |-> res.value, merged |-> FALSE,
                  written |-> e, reported |-> {}, changed |-> FALSE]

StoreClasses == {"BookEntryData", "ListEntryData"}

\* the day the next record is constructed on: each save is made with a record
\* constructed a day after the one before
Today == Date(saves + 1)

\* the classes whose records are saved day after day
DatedClasses == {"LinkEntryData", "AudiobookEntryData"}

\* the records a run saves: ids that differ in case only; a list record has
\* its class's default protection or a hand-written one and no or one item, a
\* book record has its source given or left out; a link or an audiobook
\* record is given what a collector gives it, its entry_creation_date is left
\* to the default_factory
StoreRecords(c) ==
    IF c \in DatedClasses
    THEN { Make(c, Over(Fixed(c),
                   [entry_id |-> W("x"), entry_type |-> TypeOf(c), title |-> ti,
                    theme |-> th, topics |-> tp, source |-> W("omnivore"),
                    asin |-> W("B0"), entry_creation_date |-> Today])) :
             ti \in {W("t"), W("u")}, th \in {None, W("h")}, tp \in ListsInOrder(1) }
    ELSE IF c = "ListEntryData"
    THEN { Make(c, [entry_id |-> id, entry_type |-> TypeOf(c), title |-> ti,
                    protected_fields |-> pf, list_items |-> li]) :
             id \in {W("x"), W("X")}, ti \in {W("t"), W("u")},
             pf \in {List(DefaultProtected(c)), List(<<"title">>)},
             li \in ListsInOrder(1) }
    ELSE { Make(c, Over([entry_id |-> id, entry_type |-> TypeOf(c), title |-> ti,
                         theme |-> th], src)) :
             id \in {W("x"), W("X")}, ti \in {W("t"), W("u")},
             th \in {None, W("h")},
             src \in {<<>>, [source |-> W("omnivore")]} }

\* Entry.from_data(e).save(folder): folder.save_entry(filename, e), with
\* prevent_overwrite left at its default
SaveEntry ==
    /\ saves < MaxSaves
    /\ \E e \in StoreRecords(cls) :
       \E fn \in {Filename(e)} :
       \E r \in {SaveEntryResult(cls, FileText(fn), e, prevent)} :
             /\ entry' = e
             /\ filename' = fn
             /\ before' = FileText(fn)
             /\ IF r.error = "none"
                THEN \E text \in {WriteEntryText(cls, r.written, <<>>)} :
                        /\ store' = [f \in DOMAIN store \cup {fn} |->
                                        IF f = fn THEN text ELSE store[f]]
                        /\ first' = [f \in DOMAIN first \cup {fn} |->
                                        IF f \in DOMAIN first THEN first[f] ELSE text]
                        /\ target0' = r.read
                        /\ target' = r.written
                        /\ reported' = r.reported
                        /\ outcome' = "saved"
                ELSE /\ UNCHANGED <<store, first>>
                     /\ target0' = None
                     /\ target' = None
                     /\ reported' = {}
                     /\ outcome' = r.error
    /\ saves' = saves + 1
    /\ phase' = "saved"
    /\ UNCHANGED <<cls, selfMerge, protArg, callerList, callerList0, prevent,
                   file, decoded, folderVars, shared, buildVars>>

InitStore ==
    /\ phase = "ready"
    /\ cls \in StoreClasses
    /\ target = None
    /\ target0 = None
    /\ entry = None
    /\ selfMerge = FALSE
    /\ protArg = "own"
    /\ callerList = <<>>
    /\ callerList0 = <<>>
    /\ prevent = FALSE
    /\ outcome = "none"
    /\ reported = {}
    /\ file = "missing"
    /\ decoded = None
    /\ store = <<>>
    /\ filename = <<>>
    /\ before = "missing"
    /\ first = <<>>
    /\ saves = 0
    /\ NoFolders
    /\ NoSharing
    /\ NoBuild

NextStore == SaveEntry

\* the same folder, for records saved day after day
InitDated ==
    /\ phase = "ready"
    /\ cls \in DatedClasses
    /\ target = None
    /\ target0 = None
    /\ entry = None
    /\ selfMerge = FALSE
    /\ protArg = "own"
    /\ callerList = <<>>
    /\ callerList0 = <<>>
    /\ prevent = FALSE
    /\ outcome = "none"
    /\ reported = {}
    /\ file = "missing"
    /\ decoded = None
    /\ NoStore
    /\ NoFolders
    /\ NoSharing
    /\ NoBuild

NextDated == SaveEntry

SpecDated == InitDated /\ [][NextDated]_vars

SpecStore == InitStore /\ [][NextStore]_vars

(***************************************************************************)
(* The store over a file found on disk: written by an earlier run, or      *)
(* edited by hand so that the delimiter closing its header is gone.        *)
(***************************************************************************)
\* the text without the delimiter that closes its header, and without body
Unclosed(text) == <<Delimiter>> \o Head(Tail(SplitOn(text, <<>>)))

\* the records whose files are found on disk
FoundRecords(c) ==
    {r \in StoreRecords(c) : r["entry_id"] = W("x") /\ r["title"] = W("t")}

\* the texts found for record r: as written, header unclosed, header unclosed
\* and followed by a line of body text
FoundTexts(c, r) ==
    {WriteEntryText(c, r, <<>>),
     Unclosed(WriteEntryText(c, r, <<>>)),
     Unclosed(WriteEntryText(c, r, <<>>)) \o <<Text("w")>>}

InitStored ==
    /\ phase = "ready"
    /\ cls \in StoreClasses
    /\ target = None
    /\ target0 = None
    /\ entry = None
    /\ selfMerge = FALSE
    /\ protArg = "own"
    /\ callerList = <<>>
    /\ callerList0 = <<>>
    /\ prevent = FALSE
    /\ outcome = "none"
    /\ reported = {}
    /\ file = "missing"
    /\ decoded = None
    /\ \E r \in FoundRecords(cls) : \E text \in FoundTexts(cls, r) :
          store = [f \in {Filename(r)} |-> text]
    /\ filename = <<>>
    /\ before = "missing"
    /\ first = store
    /\ saves = 0
    /\ NoFolders
    /\ NoSharing
    /\ NoBuild

NextStored == SaveEntry

SpecStored == InitStored /\ [][NextStored]_vars

(***************************************************************************)
(* The file write of write_markdown, statement by statement: the file is   *)
(* opened for writing, which empties it, and the delimiter, the header,    *)
(* the delimiter and the body are written by separate calls.  Any of these *)
(* statements can fail (no such directory, no space left, a character the  *)
(* file's encoding has not); the with statement then closes the file, and  *)
(* what was written before the failure stays on disk.  file is the text    *)
(* the file holds once it is closed.                                       *)
(***************************************************************************)
\* the positions inside the with statement, before each write
WritePositions == <<"opened", "wrote1", "wrote2", "wrote3">>

\* the position after position p
NextPosition(p) ==
    CASE p = "opened" -> "wrote1"
      [] p = "wrote1" -> "wrote2"
      [] p = "wrote2" -> "wrote3"
      [] p = "wrote3" -> "done"

\* what the write at position p appends, for the record obj of class c
WrittenAt(c, obj, p) ==
    CASE p = "opened" -> <<Delimiter>>
      [] p = "wrote1" -> YamlDump(Reordered(DelKey(ModelDump(c, obj), "description"), <<>>))
      [] p = "wrote2" -> <<Delimiter>>
      [] p = "wrote3" -> IF Truthy(obj["description"])
                         THEN TextOf(obj["description"].val)
                         ELSE <<>>

\* the number of fp.write calls made when position p is reached
WritesAt(p) ==
    CASE p = "wrote1" -> 1
      [] p = "wrote2" -> 2
      [] p = "wrote3" -> 3
      [] p = "done"   -> 3
      [] OTHER        -> 0

\* file.open('w'): the file is created or emptied
OpenFile ==
    /\ phase = "ready"
    /\ file' = <<>>
    /\ phase' = "opened"
    /\ UNCHANGED <<cls, target, target0, entry, selfMerge, protArg, callerList,
                   callerList0, prevent, outcome, reported, decoded,
                   storeVars, folderVars, shared, buildVars>>

\* file.open('w') raises: the file is as it was
OpenFails ==
    /\ phase = "ready"
    /\ phase' = "failed"
    /\ outcome' = "OSError"
    /\ UNCHANGED <<cls, target, target0, entry, selfMerge, protArg, callerList,
                   callerList0, prevent, reported, file, decoded,
                   storeVars, folderVars, shared, buildVars>>

\* one fp.write of lines 214-218; after the last the file is closed
WriteStep ==
    /\ phase \in Range(WritePositions)
    /\ file' = file \o WrittenAt(cls, target, phase)
    /\ phase' = NextPosition(phase)
    /\ outcome' = IF phase' = "done" THEN "written" ELSE outcome
    /\ UNCHANGED <<cls, target, target0, entry, selfMerge, protArg, callerList,
                   callerList0, prevent, reported, decoded,
                   storeVars, folderVars, shared, buildVars>>

\* the fp.write at hand raises: the file is closed with what it holds
WriteFails ==
    /\ phase \in Range(WritePositions)
    /\ phase' = "failed"
    /\ outcome' = "OSError"
    /\ UNCHANGED <<cls, target, target0, entry, selfMerge, protArg, callerList,
                   callerList0, prevent, reported, file, decoded,
                   storeVars, folderVars, shared, buildVars>>

\* the records written: found records, with or without a description
WriteRecords(c) ==
    {[r EXCEPT !["description"] = d] : r \in FoundRecords(c), d \in {None, W("d")}}

InitWrite ==
    /\ phase = "ready"
    /\ cls \in StoreClasses
    /\ target \in WriteRecords(cls)
    /\ target0 = target
    /\ entry = target
    /\ selfMerge = FALSE
    /\ protArg = "own"
    /\ callerList = <<>>
    /\ callerList0 = <<>>
    /\ prevent = FALSE
    /\ outcome = "none"
    /\ reported = {}
    /\ \/ file = "missing"
       \/ \E r \in WriteRecords(cls) : file = WriteEntryText(cls, r, <<>>)
    /\ decoded = None
    /\ store = <<>>
    /\ filename = Filename(target)
    /\ before = file
    /\ first = <<>>
    /\ saves = 0
    /\ NoFolders
    /\ NoSharing
    /\ NoBuild

NextWrite == OpenFile \/ OpenFails \/ WriteStep \/ WriteFails

SpecWrite == InitWrite /\ [][NextWrite]_vars

(***************************************************************************)
(* The legacy record class CatalogEntry of catalog_entry.py.               *)
(***************************************************************************)
\* the fields CatalogEntry.merge loops over, in the order of its tuple
LegacyMergedFields ==
    <<"isbn", "asin", "url", "title", "author", "subtitle", "full_title",
      "narrator", "description", "format", "length", "language", "publisher",
      "published_date", "theme", "topics", "subjects", "tags", "location",
      "purchase_date", "entry_creation_date", "cover_filename",
      "markdown_filename", "site_url">>

\* the declared fields of CatalogEntry
CatalogEntryFields ==
    <<"entry_id", "entry_type", "source">> \o LegacyMergedFields
        \o <<"note", "summary", "read_date", "protected_fields">>

CatalogEntryFieldSet == Range(CatalogEntryFields)

\* the declared default of field f of CatalogEntry
CatalogEntryDefault(f) ==
    CASE f \in {"entry_id", "entry_type", "title"} -> Missing
      [] f \in {"author", "narrator", "topics", "subjects", "tags", "protected_fields"} ->
             List(<<>>)
      [] f = "language" -> List(<<"English">>)
      [] f = "location" -> W("New York")
      [] f = "entry_creation_date" -> Date("today")
      [] OTHER -> None

\* the entry_type literals of CatalogEntry
CatalogEntryTypes == {W("link"), W("audiobook"), W("book")}

\* the value v is accepted for field f of CatalogEntry
CatalogEntryValidField(f, v) ==
    CASE f = "entry_id" -> v.tag = "str" /\ Len(v.val) >= 1
      [] f = "entry_type" -> v \in CatalogEntryTypes
      [] f = "title" -> v.tag = "None" \/ (v.tag = "str" /\ Len(v.val) >= 1)
      [] f \in {"source", "location"} -> v.tag = "str"
      [] f \in {"author", "topics", "subjects", "tags", "protected_fields"} -> v.tag = "list"
      [] f \in {"narrator", "language"} -> v.tag \in {"list", "None"}
      [] f = "entry_creation_date" -> v.tag = "date"
      [] f \in {"published_date", "purchase_date", "read_date"} ->
             v.tag \in {"date", "str", "None"}
      [] OTHER -> v.tag \in {"str", "None"}

\* CatalogEntry(**kw) before validation
MakeCatalogEntry(kw) ==
    [f \in CatalogEntryFieldSet |-> IF f \in DOMAIN kw THEN kw[f] ELSE CatalogEntryDefault(f)]

\* CatalogEntry(**kw) validates
ValidatesCatalogEntry(kw) ==
    \A f \in CatalogEntryFieldSet :
        IF f \in DOMAIN kw THEN CatalogEntryValidField(f, kw[f])
        ELSE CatalogEntryDefault(f) # Missing

(***************************************************************************)
(* The construction specification: a class is called with keyword          *)
(* arguments, some left out, some invalid.  entry holds the arguments,     *)
(* target the record constructed, None when the call raised.               *)
(***************************************************************************)
AllClasses == Classes \cup {"CatalogEntry"}

\* the arguments kw without those marked as left out
Given(kw) == [f \in {g \in DOMAIN kw : kw[g] # Missing} |-> kw[f]]

\* the entry_type a test gives a record of class c
TypeFor(c) == IF c = "CatalogEntry" THEN W("book") ELSE TypeOf(c)

\* arguments every class takes
BaseKeywords(c) ==
    { [entry_id |-> id, entry_type |-> ty, title |-> ti] :
        id \in {Missing, Str(<<>>), W("x")},
        ty \in {TypeFor(c), W("list"), W("invalid_type")},
        ti \in {Missing, Str(<<>>), W("t")} }

\* arguments of the class's own fields
OwnKeywords(c) ==
    CASE c = "LinkEntryData" ->
             { [url |-> u, domain |-> dm] : u \in {Missing, W("u")}, dm \in {Missing, W("dom")} }
      [] c = "CatalogEntry" ->
             { [author |-> au] : au \in {Missing, List(<<>>), List(<<"a">>)} }
      [] OTHER -> {<<>>}

ConstructKeywords(c) ==
    { Given(Over(b, o)) : b \in BaseKeywords(c), o \in OwnKeywords(c) }

\* cls(**entry)
Construct ==
    /\ phase = "ready"
    /\ LET valid == IF cls = "CatalogEntry"
                    THEN ValidatesCatalogEntry(entry)
                    ELSE Validates(cls, entry)
       IN /\ target' = IF ~valid THEN None
                       ELSE IF cls = "CatalogEntry" THEN MakeCatalogEntry(entry)
                       ELSE Make(cls, entry)
          /\ outcome' = IF valid THEN "constructed" ELSE "ValidationError"
    /\ phase' = "constructed"
    /\ UNCHANGED <<cls, target0, entry, selfMerge, protArg, callerList, callerList0,
                   prevent, reported, file, decoded, storeVars, folderVars, shared, buildVars>>

InitConstruct ==
    /\ phase = "ready"
    /\ cls \in AllClasses
    /\ target = None
    /\ target0 = None
    /\ entry \in ConstructKeywords(cls)
    /\ selfMerge = FALSE
    /\ protArg = "None"
    /\ callerList = <<>>
    /\ callerList0 = <<>>
    /\ prevent = FALSE
    /\ outcome = "none"
    /\ reported = {}
    /\ file = "missing"
    /\ decoded = None
    /\ NoStore
    /\ NoFolders
    /\ NoSharing
    /\ NoBuild

NextConstruct == Construct

SpecConstruct == InitConstruct /\ [][NextConstruct]_vars

(***************************************************************************)
(* Folder objects and the directories on disk.                             *)
(***************************************************************************)
\* the paths folders are made for; "a/b" lies in "a"
Paths == {"a", "a/b", "c"}

Parents(p) == IF p = "a/b" THEN {"a"} ELSE {}

Children(p) == {q \in Paths : p \in Parents(q)}

\* the value of the parameter create when the argument is arg
CreateParameter(arg) == IF arg = "default" THEN TRUE ELSE arg = "True"

\* self.path.mkdir(parents=True, exist_ok=True)
Mkdir(p) == dirs \cup {p} \cup Parents(p)

\* Folder.exists()
Exists(p) == p \in dirs

\* Folder.__repr__: the word after the path
ReprOf(p) == IF Exists(p) THEN "exists" ELSE "non-existent"

\* Folder(p), Folder(p, create=True) or Folder(p, create=False)
NewFolder ==
    \E p \in Paths : \E arg \in {"default", "True", "False"} :
        /\ folders' = folders \cup {p}
        /\ dirs' = IF CreateParameter(arg) THEN Mkdir(p) ELSE dirs
        /\ created' = IF arg = "True" THEN created \cup {p} \cup Parents(p) ELSE created
        /\ phase' = "constructed"
        /\ outcome' = "none"
        /\ UNCHANGED <<cls, target, target0, entry, selfMerge, protArg, callerList,
                       callerList0, prevent, reported, file, decoded, storeVars, shared,
                       buildVars>>

\* folder.create()
Create ==
    \E p \in folders :
        /\ dirs' = Mkdir(p)
        /\ created' = created \cup {p} \cup Parents(p)
        /\ phase' = "created"
        /\ outcome' = "none"
        /\ UNCHANGED <<cls, target, target0, entry, selfMerge, protArg, callerList,
                       callerList0, prevent, reported, file, decoded, storeVars,
                       folders, shared, buildVars>>

\* folder.delete(): rmdir removes an existing, empty directory
Delete ==
    \E p \in folders :
        /\ IF Exists(p) /\ Children(p) \cap dirs = {}
           THEN /\ dirs' = dirs \ {p}
                /\ created' = created \ {p}
                /\ outcome' = "none"
           ELSE /\ UNCHANGED <<dirs, created>>
                /\ outcome' = "OSError"
        /\ phase' = "deleted"
        /\ UNCHANGED <<cls, target, target0, entry, selfMerge, protArg, callerList,
                       callerList0, prevent, reported, file, decoded, storeVars,
                       folders, shared, buildVars>>

\* repr(folder)
Repr ==
    \E p \in folders :
        /\ outcome' = ReprOf(p)
        /\ phase' = "repr"
        /\ UNCHANGED <<cls, target, target0, entry, selfMerge, protArg, callerList,
                       callerList0, prevent, reported, file, decoded, storeVars,
                       folderVars, shared, buildVars>>

InitFolder ==
    /\ phase = "ready"
    /\ cls = "Folder"
    /\ target = None
    /\ target0 = None
    /\ entry = None
    /\ selfMerge = FALSE
    /\ protArg = "None"
    /\ callerList = <<>>
    /\ callerList0 = <<>>
    /\ prevent = FALSE
    /\ outcome = "none"
    /\ reported = {}
    /\ file = "missing"
    /\ decoded = None
    /\ NoStore
    /\ NoFolders
    /\ NoSharing
    /\ NoBuild

NextFolder == NewFolder \/ Create \/ Delete \/ Repr

SpecFolder == InitFolder /\ [][NextFolder]_vars

(***************************************************************************)
(* CatalogEntry.merge, the legacy merge.  Its loop is that of              *)
(* EntryData.merge over a fixed tuple of fields; the report is printed     *)
(* when overwrite is false, so prevent holds the negation of overwrite.    *)
(* The protected list is a fresh list when the argument is omitted, and    *)
(* the list is not extended.                                               *)
(***************************************************************************)
\* lines 157-167: the default of protected
LegacyDefaultProtected ==
    <<"entry_type", "entry_creation_date", "theme", "subjects", "tags",
      "location", "purchase_date", "note">>

\* a merge whose omitted protected argument protects nothing
LegacyProtectedNothing(arg, caller) == IF arg = "None" THEN <<>> ELSE caller

\* the contents of `protected` after lines 157-167
LegacyProtected(arg, caller) == IF arg = "None" THEN LegacyDefaultProtected ELSE caller

\* target.merge(entry, overwrite=~prevent, protected=...); the loop of lines
\* 172-213 over the field tuple is taken in three runs of eight fields
LegacyMerge ==
    /\ phase = "ready"
    /\ \E prot \in {LegacyProtected(protArg, callerList)} :
       \E run1 \in {MergeLoop([obj |-> target, changed |-> FALSE, reported |-> {}],
                              entry, selfMerge, prot, prevent,
                              SubSeq(LegacyMergedFields, 1, 8))} :
       \E run2 \in {MergeLoop(run1, entry, selfMerge, prot, prevent,
                              SubSeq(LegacyMergedFields, 9, 16))} :
       \E res \in {MergeLoop(run2, entry, selfMerge, prot, prevent,
                             SubSeq(LegacyMergedFields, 17, 24))} :
          IF MergeGuardFails(target, entry)
          THEN /\ target' = target
               /\ outcome' = "ValueError"
               /\ reported' = {}
               /\ shared' = shared
          ELSE /\ target' = res.obj
               /\ outcome' = IF res.changed THEN "True" ELSE "False"
               /\ reported' = res.reported
               /\ shared' = shared \cup SharedLists(target, entry, selfMerge, prot,
                                                    LegacyMergedFields)
    /\ phase' = "merged"
    /\ UNCHANGED <<cls, target0, entry, selfMerge, protArg, callerList, callerList0,
                   prevent, file, decoded, storeVars, folderVars, buildVars>>

\* the fields every drawn CatalogEntry is given
LegacyFixed == [entry_type |-> W("book"), title |-> W("t"), source |-> W("audible")]

LegacyTargets ==
    { MakeCatalogEntry(Over(LegacyFixed,
          [entry_id |-> W("x"), theme |-> th, tags |-> tg, subtitle |-> st,
           topics |-> tp])) :
        th \in {None, W("h")}, tg \in {List(<<>>), List(<<"a">>)},
        st \in {None, W("s")}, tp \in {List(<<>>), List(<<"a", "b">>)} }

LegacyIncoming ==
    { MakeCatalogEntry(Over(LegacyFixed,
          [entry_id |-> id, theme |-> th, tags |-> tg, subtitle |-> st,
           topics |-> tp, location |-> lo, entry_creation_date |-> cd])) :
        id \in {Str(<<>>), W("x"), W("y")},
        th \in {None, W("g")}, tg \in {List(<<>>), List(<<"b">>)},
        st \in {None, W("r")}, tp \in {List(<<>>), List(<<"b", "a">>)},
        lo \in {W("New York"), W("Paris")},
        cd \in {Date("today"), Date("yesterday")} }

\* lists a caller passes as protected
LegacyCallerLists == {<<>>, <<"subtitle", "topics">>}

InitLegacy ==
    /\ phase = "ready"
    /\ cls = "CatalogEntry"
    /\ target \in LegacyTargets
    /\ target0 = target
    /\ entry \in LegacyIncoming
    /\ selfMerge = FALSE
    /\ protArg \in {"None", "caller"}
    /\ callerList \in IF protArg = "caller" THEN LegacyCallerLists ELSE {<<>>}
    /\ callerList0 = callerList
    /\ prevent \in BOOLEAN
    /\ outcome = "none"
    /\ reported = {}
    /\ file = "missing"
    /\ decoded = None
    /\ NoStore
    /\ NoFolders
    /\ NoSharing
    /\ NoBuild

NextLegacy == LegacyMerge

SpecLegacy == InitLegacy /\ [][NextLegacy]_vars

(***************************************************************************)
(* Records after a merge: a caller goes on to modify a list of the         *)
(* incoming record, or of the target, in place.                            *)
(***************************************************************************)
\* the list-valued fields of class c
ListFields(c) ==
    IF c = "ListEntryData"
    THEN {"protected_fields", "list_items"}
    ELSE {"topics", "tags", "protected_fields"}

\* record.f.append(item): the list object is changed in place
Appended(record, f, item) == [record EXCEPT ![f] = List(@.val \o <<item>>)]

\* entry.f.append('z') after the merge
AppendIncoming ==
    /\ phase = "merged"
    /\ outcome \in {"True", "False"}
    /\ \E f \in ListFields(cls) :
          /\ entry' = Appended(entry, f, "z")
          /\ target' = IF f \in shared THEN Appended(target, f, "z") ELSE target
    /\ phase' = "modified"
    /\ UNCHANGED <<cls, target0, selfMerge, protArg, callerList, callerList0, prevent,
                   outcome, reported, file, decoded, storeVars, folderVars, shared,
                   buildVars>>

\* target.f.append('z') after the merge
AppendTarget ==
    /\ phase = "merged"
    /\ outcome \in {"True", "False"}
    /\ \E f \in ListFields(cls) :
          /\ target' = Appended(target, f, "z")
          /\ entry' = IF f \in shared THEN Appended(entry, f, "z") ELSE entry
    /\ phase' = "modified"
    /\ UNCHANGED <<cls, target0, selfMerge, protArg, callerList, callerList0, prevent,
                   outcome, reported, file, decoded, storeVars, folderVars, shared,
                   buildVars>>

ShareTargets(c) ==
    { Make(c, Over(Fixed(c),
              [entry_id |-> W("x"), entry_type |-> TypeOf(c), title |-> W("t"),
               topics |-> tp, tags |-> tg, list_items |-> li, protected_fields |-> pf])) :
        tp \in ListsInOrder(1), tg \in ListsInOrder(1), li \in ListsInOrder(1),
        pf \in {List(DefaultProtected(c)), List(<<"protected_fields">>)} }

ShareIncoming(c) ==
    { Make(c, Over(Fixed(c),
              [entry_id |-> W("x"), entry_type |-> TypeOf(c), title |-> ti,
               topics |-> tp, tags |-> tg, list_items |-> li])) :
        ti \in {W("t"), W("u")},
        tp \in ListsInOrder(1), tg \in ListsInOrder(1), li \in ListsInOrder(1) }

InitShare ==
    /\ phase = "ready"
    /\ cls \in MergeClasses
    /\ target \in ShareTargets(cls)
    /\ target0 = target
    /\ selfMerge = FALSE
    /\ entry \in ShareIncoming(cls)
    /\ protArg = "None"
    /\ callerList = <<>>
    /\ callerList0 = <<>>
    /\ prevent = FALSE
    /\ outcome = "none"
    /\ reported = {}
    /\ file = "missing"
    /\ decoded = None
    /\ NoStore
    /\ NoFolders
    /\ NoSharing
    /\ NoBuild

NextShare == Merge \/ AppendIncoming \/ AppendTarget

SpecShare == InitShare /\ [][NextShare]_vars

(***************************************************************************)
(* The merges of both record classes, each called with its flag set and    *)
(* unset: prevent_overwrite of EntryData.merge, overwrite of               *)
(* CatalogEntry.merge.                                                     *)
(***************************************************************************)
InitFlag == InitMerge \/ InitLegacy

NextFlag ==
    \/ cls \in Classes /\ Merge
    \/ cls = "CatalogEntry" /\ LegacyMerge

SpecFlag == InitFlag /\ [][NextFlag]_vars

\* what self.merge(e, prevent_overwrite=po, protected=...) leaves in self and
\* returns, for a record of class c
MergeCall(c, self, e, same, arg, caller, po) ==
    LET prot  == MergeProtected(self, arg, caller)
        self1 == IF MergeAliasesOwn(self, arg)
                 THEN [self EXCEPT !["protected_fields"] = List(prot)]
                 ELSE self
        res   == MergeLoop([obj |-> self1, changed |-> FALSE, reported |-> {}],
                           e, same, prot, po, Fields(c))
    IN IF MergeGuardFails(self1, IF same THEN self1 ELSE e)
       THEN [obj |-> self1, outcome |-> "ValueError"]
       ELSE [obj |-> res.obj, outcome |-> IF res.changed THEN "True" ELSE "False"]

\* the loop of CatalogEntry.merge over the fields from..to of its tuple, from
\* the loop state st
LegacyRun(st, e, arg, caller, po, from, to) ==
    MergeLoop(st, e, FALSE, LegacyProtected(arg, caller), po,
              SubSeq(LegacyMergedFields, from, to))

(***************************************************************************)
(* List records: ListEntryData with its append and remove, and the theme   *)
(* lists OakCatalog.make_theme_lists builds from the indexed records.      *)
(* The items of a list are records.  No collector sets entry_date, so the  *)
(* sort of lines 161-165 compares equal keys and keeps the items in order. *)
(***************************************************************************)
MaxItems == 3

\* Counter(x.entry_type for x in items)
Counter(items) ==
    [tag |-> "dict",
     val |-> [ty \in {items[i]["entry_type"] : i \in 1..Len(items)} |->
                 Cardinality({i \in 1..Len(items) : items[i]["entry_type"] = ty})]]

\* the values of self.entries, in insertion order
Values(index) == [i \in 1..Len(index) |-> index[i].data]

\* the themes of the indexed records
ThemesOf(index) ==
    {Values(index)[i]["theme"] : i \in 1..Len(index)} \ {None, Str(<<>>)}

\* lines 147-167: the list record of theme t
ThemeList(index, t) ==
    LET items == SelectSeq(Values(index), LAMBDA d : d["theme"] = t)
    IN Make("ListEntryData",
            [entry_id |-> t, entry_type |-> W("list"), format |-> W("theme"),
             title |-> t, theme |-> t, list_items |-> List(items),
             type_count |-> Counter(items)])

\* make_theme_lists(): the list record of each theme
MakeThemeLists(index) == [t \in ThemesOf(index) |-> ThemeList(index, t)]

\* list.remove(x): the sequence without its first item equal to x
RemoveFirst(items, x) ==
    LET at == CHOOSE i \in 1..Len(items) :
                  items[i] = x /\ \A j \in 1..(i - 1) : items[j] # x
    IN SubSeq(items, 1, at - 1) \o SubSeq(items, at + 1, Len(items))

\* the records handed to a list: of each content class and of the list class
ItemRecords ==
    { Make(c, Over(Fixed(c),
              [entry_id |-> W("x"), entry_type |-> TypeOf(c), title |-> W("t"),
               theme |-> W("h"), source |-> W("audible")])) : c \in Classes }

\* lst.append(item)
ListAppend ==
    /\ phase # "ready"
    /\ target # None
    /\ Len(target["list_items"].val) < MaxItems
    /\ \E item \in ItemRecords :
          /\ entry' = item
          /\ target' = [target EXCEPT !["list_items"] = List(@.val \o <<item>>)]
    /\ outcome' = "none"
    /\ phase' = "appended"
    /\ UNCHANGED <<cls, target0, selfMerge, protArg, callerList, callerList0, prevent,
                   reported, file, decoded, storeVars, folderVars, shared, buildVars>>

\* lst.remove(item)
ListRemove ==
    /\ phase # "ready"
    /\ target # None
    /\ \E item \in ItemRecords :
          /\ entry' = item
          /\ IF item \in Range(target["list_items"].val)
             THEN /\ target' = [target EXCEPT
                                  !["list_items"] = List(RemoveFirst(@.val, item))]
                  /\ outcome' = "none"
             ELSE /\ target' = target
                  /\ outcome' = "ValueError"
    /\ phase' = "removed"
    /\ UNCHANGED <<cls, target0, selfMerge, protArg, callerList, callerList0, prevent,
                   reported, file, decoded, storeVars, folderVars, shared, buildVars>>

\* lst = ListEntryData(entry_id=..., entry_type='list', title=..., list_items=...)
ListConstruct ==
    /\ phase = "ready"
    /\ \E li \in {<<>>} \cup {<<item>> : item \in ItemRecords \ {r \in ItemRecords :
                                                   r["entry_type"] = W("list")}} :
          target' = Make(cls, [entry_id |-> W("l"), entry_type |-> W("list"),
                               title |-> W("t"), list_items |-> List(li)])
    /\ outcome' = "constructed"
    /\ phase' = "constructed"
    /\ UNCHANGED <<cls, target0, entry, selfMerge, protArg, callerList, callerList0,
                   prevent, reported, file, decoded, storeVars, folderVars, shared,
                   buildVars>>

\* the records a catalog has indexed, under their entry_id
IndexedRecords ==
    { [i \in 1..Len(ids) |->
          [id |-> ids[i],
           data |-> [(CHOOSE r \in ItemRecords : r["entry_type"] = W(tys[i]))
                        EXCEPT !["entry_id"] = ids[i]]]] :
        ids \in {<<W("x")>>, <<W("x"), W("y")>>},
        tys \in {<<"book", "link">>, <<"audiobook", "book">>, <<"link", "link">>} }

\* lst = catalog.make_theme_lists()[t]
ListFromThemes ==
    /\ phase = "ready"
    /\ \E index \in IndexedRecords : \E t \in ThemesOf(index) :
          target' = MakeThemeLists(index)[t]
    /\ outcome' = "listed"
    /\ phase' = "listed"
    /\ UNCHANGED <<cls, target0, entry, selfMerge, protArg, callerList, callerList0,
                   prevent, reported, file, decoded, storeVars, folderVars, shared,
                   buildVars>>

InitList ==
    /\ phase = "ready"
    /\ cls = "ListEntryData"
    /\ target = None
    /\ target0 = None
    /\ entry = None
    /\ selfMerge = FALSE
    /\ protArg = "None"
    /\ callerList = <<>>
    /\ callerList0 = <<>>
    /\ prevent = FALSE
    /\ outcome = "none"
    /\ reported = {}
    /\ file = "missing"
    /\ decoded = None
    /\ NoStore
    /\ NoFolders
    /\ NoSharing
    /\ NoBuild

NextList == ListConstruct \/ ListFromThemes \/ ListAppend \/ ListRemove

SpecList == InitList /\ [][NextList]_vars

(***************************************************************************)
(* OakCatalog.build on a new catalog folder.  A collector yields pairs of  *)
(* cover bytes and a record; the cover_filename of the record is kept      *)
(* beside it in the pair.  The files of the store are named by the folder  *)
(* and the filename.                                                       *)
(***************************************************************************)
MaxCollected == 3

\* every record saved in the one markdown folder
FolderOfMarkdown(ty) == "markdown"

\* lines 73-78: the folder of an entry_type
FolderOf(ty) ==
    CASE ty = W("book")      -> "books"
      [] ty = W("audiobook") -> "audiobooks"
      [] ty = W("list")      -> "lists"
      [] ty = W("link")      -> "links"

\* the class of a record
ClassOf(e) == CHOOSE c \in Classes : TypeOf(c) = e["entry_type"]

\* the name of the file of record e in the store
StoreKey(e) == <<FolderOf(e["entry_type"])>> \o Filename(e)

\* Entry.from_data(e).save(folder) on the files st: the files afterwards, or
\* the exception raised
SaveInto(st, e) ==
    LET key == StoreKey(e)
        r   == SaveEntryResult(ClassOf(e), IF key \in DOMAIN st THEN st[key] ELSE "missing",
                               e, FALSE)
    IN IF r.error = "none"
       THEN [error |-> "none",
             store |-> [k \in DOMAIN st \cup {key} |->
                           IF k = key THEN WriteEntryText(ClassOf(e), r.written, <<>>)
                           ELSE st[k]]]
       ELSE [error |-> r.error, store |-> st]

\* the save call made for record e
SaveCall(e) == [folder |-> FolderOf(e["entry_type"]), filename |-> Filename(e), data |-> e]

\* line 129: self.entries[e.entry_id] = e
Indexed(index, e) ==
    IF \E i \in 1..Len(index) : index[i].id = e["entry_id"]
    THEN [i \in 1..Len(index) |->
             IF index[i].id = e["entry_id"] THEN [id |-> index[i].id, data |-> e]
             ELSE index[i]]
    ELSE Append(index, [id |-> e["entry_id"], data |-> e])

\* lines 110-112: the cover of the pair is written to the image folder
CoverWritten(pair) ==
    /\ Truthy(pair.cover_bytes)
    /\ Truthy(pair.cover_filename)
    /\ (override \/ pair.cover_filename \notin DOMAIN images)

\* lines 108-129: the build takes the next pair
BuildCollect ==
    /\ phase \in {"ready", "collecting"}
    /\ yielded < Len(collected)
    /\ \E pair \in {collected[yielded + 1]} :
       \E r \in {SaveInto(store, pair.record)} :
          /\ images' = IF CoverWritten(pair)
                        THEN [n \in DOMAIN images \cup {pair.cover_filename} |->
                                 IF n = pair.cover_filename THEN pair.cover_bytes
                                 ELSE images[n]]
                        ELSE images
          /\ entry' = pair.record
          /\ saveCalls' = Append(saveCalls, SaveCall(pair.record))
          /\ store' = r.store
          /\ outcome' = r.error
          /\ IF r.error = "none"
             THEN /\ entries' = Indexed(entries, pair.record)
                  /\ phase' = "collecting"
             ELSE /\ entries' = entries
                  /\ phase' = "failed"
    /\ yielded' = yielded + 1
    /\ UNCHANGED <<cls, target, target0, selfMerge, protArg, callerList, callerList0,
                   prevent, reported, file, decoded, filename, before, first, saves,
                   folderVars, shared, collected, override>>

\* the list records of make_theme_lists, in the order of their themes
ThemeListsOf(index) ==
    LET vals  == Values(index)
        firsts == SelectSeq([i \in 1..Len(vals) |-> [at |-> i, theme |-> vals[i]["theme"]]],
                            LAMBDA x : /\ Truthy(x.theme)
                                       /\ \A j \in 1..(x.at - 1) : vals[j]["theme"] # x.theme)
    IN [i \in 1..Len(firsts) |-> MakeThemeLists(index)[firsts[i].theme]]

\* the saves of a sequence of records, one after the other
RECURSIVE SaveAll(_, _)
SaveAll(st, records) ==
    IF records = <<>>
    THEN [error |-> "none", store |-> st]
    ELSE LET r == SaveInto(st, Head(records))
         IN IF r.error = "none" THEN SaveAll(r.store, Tail(records)) ELSE r

\* lines 131-136: the theme lists are made and saved
BuildThemeLists ==
    /\ phase \in {"ready", "collecting"}
    /\ yielded = Len(collected)
    /\ \E lists \in {ThemeListsOf(entries)} :
       \E r \in {SaveAll(store, lists)} :
          /\ store' = r.store
          /\ saveCalls' = saveCalls \o [i \in 1..Len(lists) |-> SaveCall(lists[i])]
          /\ outcome' = r.error
          /\ phase' = IF r.error = "none" THEN "built" ELSE "failed"
    /\ UNCHANGED <<cls, target, target0, entry, selfMerge, protArg, callerList,
                   callerList0, prevent, reported, file, decoded, filename, before, first,
                   saves, folderVars, shared, collected, yielded, override, entries,
                   images>>

\* the records the collectors yield: a book and an audiobook of one id and
\* one theme, a link without a theme, a link of the same theme
CollectedRecords ==
    { Make("BookEntryData",
           [entry_id |-> W("x"), entry_type |-> W("book"), title |-> W("t"),
            theme |-> W("h"), source |-> W("audible")]),
      Make("AudiobookEntryData",
           [entry_id |-> W("x"), entry_type |-> W("audiobook"), title |-> W("t"),
            theme |-> W("h"), source |-> W("audible"), asin |-> W("B0")]),
      Make("LinkEntryData",
           Over(Fixed("LinkEntryData"),
                [entry_id |-> W("y"), entry_type |-> W("link"), title |-> W("t"),
                 source |-> W("omnivore")])),
      Make("LinkEntryData",
           Over(Fixed("LinkEntryData"),
                [entry_id |-> W("z"), entry_type |-> W("link"), title |-> W("u"),
                 theme |-> W("h"), source |-> W("omnivore")])) }

\* the cover image bytes of a pair
CoverBytes == [tag |-> "bytes", val |-> <<"jpeg">>]

\* the content of a cover file found in the image folder
OldCover == [tag |-> "bytes", val |-> <<"old">>]

\* a pair with no bytes, with no cover_filename, with both
CollectedPairs ==
    { p \in { [cover_bytes |-> cb, cover_filename |-> cf, record |-> r] :
                cb \in {None, CoverBytes}, cf \in {None, W("c")},
                r \in CollectedRecords } :
        p.cover_bytes # None \/ p.cover_filename # None }

\* the sequences of at most n pairs, each record yielded once
RECURSIVE PairSeqs(_)
PairSeqs(n) ==
    IF n = 0
    THEN {<<>>}
    ELSE LET shorter == PairSeqs(n - 1)
         IN shorter \cup
            { sq \in { Append(q, p) : q \in {q \in shorter : Len(q) = n - 1},
                                      p \in CollectedPairs } :
                \A i \in 1..(n - 1) : sq[i].record # sq[n].record }

InitBuild ==
    /\ phase = "ready"
    /\ cls = "None"
    /\ target = None
    /\ target0 = None
    /\ entry = None
    /\ selfMerge = FALSE
    /\ protArg = "own"
    /\ callerList = <<>>
    /\ callerList0 = <<>>
    /\ prevent = FALSE
    /\ outcome = "none"
    /\ reported = {}
    /\ file = "missing"
    /\ decoded = None
    /\ NoStore
    /\ NoFolders
    /\ NoSharing
    /\ collected \in PairSeqs(MaxCollected)
    /\ yielded = 0
    /\ override \in BOOLEAN
    /\ entries = <<>>
    /\ saveCalls = <<>>
    /\ images \in {<<>>, [n \in {W("c")} |-> OldCover]}

NextBuild == BuildCollect \/ BuildThemeLists

SpecBuild == InitBuild /\ [][NextBuild]_vars

(***************************************************************************)
(* CatalogEntryMarkdownFile: the file of a legacy record.  target is the   *)
(* catalog_entry held in memory, file the text on disk, entry the record   *)
(* read from the file; allow_overwrite is the negation of prevent.         *)
(***************************************************************************)
\* catalog_entry.dict() without its description, as a mapping
LegacyFrontmatter(obj) == [f \in CatalogEntryFieldSet \ {"description"} |-> obj[f]]

\* the items of that mapping, in the order of the fields
LegacyPairs(obj) ==
    DelKey([i \in 1..Len(CatalogEntryFields) |->
               <<CatalogEntryFields[i], obj[CatalogEntryFields[i]]>>], "description")

\* MarkdownFile.read on the text raw: the statements of Folder.read_markdown
MarkdownFileRead(raw) == ReadMarkdown(raw)

\* the items of the mapping loaded from a header block whose keys are distinct
LoadedPairs(block) == [i \in 1..Len(block) |-> <<block[i].key, StripValue(block[i].value)>>]

\* yaml.dump of a mapping: '{}\n' for the empty one
LegacyYamlDump(pairs) == IF pairs = <<>> THEN <<Text("{}\n")>> ELSE YamlDump(pairs)

\* MarkdownFile.write, lines 85-104: the text written; the write of a content
\* that is None raises after the header is written
MarkdownFileWrite(pairs, content, top) ==
    <<Delimiter>> \o LegacyYamlDump(Reordered(pairs, top)) \o <<Delimiter>>
        \o (IF content = None THEN <<>> ELSE TextOf(content.val) \o <<Text("\n")>>)

\* lines 312-314 and MarkdownFile.read: the frontmatter and content of the
\* file object when the file has been read, or the exception raised
WriteState(raw, obj) ==
    IF raw = "missing"
    THEN [error |-> "none", pairs |-> LegacyPairs(obj),
          frontmatter |-> LegacyFrontmatter(obj), content |-> obj["description"]]
    ELSE LET md == MarkdownFileRead(raw)
         IN IF md.error # "none"
            THEN [error |-> md.error]
            ELSE [error |-> "none",
                  pairs |-> IF md.frontmatter = <<>> THEN <<>>
                            ELSE LoadedPairs(Head(Tail(SplitOn(raw, <<>>)))),
                  frontmatter |-> md.frontmatter, content |-> md.content]

\* catalog_entry_file.write(): lines 312-316
WriteCatalogEntry ==
    /\ phase = "ready"
    /\ \E st \in {WriteState(file, target)} :
          IF st.error # "none"
          THEN /\ outcome' = st.error
               /\ UNCHANGED <<target, entry, file, reported, shared>>
          ELSE \E kw \in {IF st.frontmatter = <<>> THEN <<>>
                           ELSE Over(st.frontmatter, [description |-> st.content])} :
               IF st.frontmatter # <<>> /\ ~ValidatesCatalogEntry(kw)
               THEN /\ outcome' = "ValidationError"
                    /\ UNCHANGED <<target, entry, file, reported, shared>>
               ELSE \E read \in {IF st.frontmatter = <<>> THEN None
                                  ELSE MakeCatalogEntry(kw)} :
                    \E arg \in {IF read # None /\ Truthy(read["protected_fields"])
                                 THEN "caller" ELSE "None"} :
                    \E caller \in {IF arg = "caller" THEN read["protected_fields"].val
                                    ELSE <<>>} :
                    \E run1 \in {IF read = None THEN None
                                  ELSE LegacyRun([obj |-> target, changed |-> FALSE,
                                                  reported |-> {}],
                                                 read, arg, caller, prevent, 1, 8)} :
                    \E run2 \in {IF read = None THEN None
                                  ELSE LegacyRun(run1, read, arg, caller, prevent, 9, 16)} :
                    \E res \in {IF read = None THEN None
                                 ELSE LegacyRun(run2, read, arg, caller, prevent, 17, 24)} :
                       /\ entry' = read
                       /\ IF read # None /\ MergeGuardFails(target, read)
                          THEN /\ outcome' = "ValueError"
                               /\ UNCHANGED <<target, file, reported, shared>>
                          ELSE /\ target' = IF read = None THEN target ELSE res.obj
                               /\ reported' = IF read = None THEN {} ELSE res.reported
                               /\ shared' = IF read = None THEN shared
                                             ELSE shared \cup
                                                  SharedLists(target, read, FALSE,
                                                              LegacyProtected(arg, caller),
                                                              LegacyMergedFields)
                               /\ file' = MarkdownFileWrite(st.pairs, st.content, <<>>)
                               /\ outcome' = IF st.content = None THEN "TypeError"
                                              ELSE "none"
    /\ phase' = "written"
    /\ UNCHANGED <<cls, target0, selfMerge, protArg, callerList, callerList0, prevent,
                   decoded, storeVars, folderVars, buildVars>>

\* the catalog entries held in memory: the source given or left out
MemoryEntries ==
    { MakeCatalogEntry(Over([entry_type |-> W("book"), title |-> W("t"),
                             entry_id |-> W("x"), subtitle |-> st, tags |-> tg,
                             description |-> d], src)) :
        st \in {None, W("s")}, tg \in {List(<<>>), List(<<"a">>)},
        d \in {None, W("d")}, src \in {<<>>, [source |-> W("audible")]} }

\* the catalog entries an earlier write left in the file
FileEntries ==
    { MakeCatalogEntry(Over(LegacyFixed,
                            [entry_id |-> W("x"), subtitle |-> st, tags |-> tg,
                             description |-> d, protected_fields |-> pf])) :
        st \in {None, W("r")}, tg \in {List(<<>>), List(<<"b">>)},
        d \in {W("d"), W("e")}, pf \in {List(<<>>), List(<<"subtitle">>)} }

InitEntryFile ==
    /\ phase = "ready"
    /\ cls = "CatalogEntry"
    /\ target \in MemoryEntries
    /\ target0 = target
    /\ entry = None
    /\ selfMerge = FALSE
    /\ protArg = "None"
    /\ callerList = <<>>
    /\ callerList0 = <<>>
    /\ prevent \in BOOLEAN
    /\ outcome = "none"
    /\ reported = {}
    /\ \/ file = "missing"
       \/ \E e \in FileEntries :
             file = MarkdownFileWrite(LegacyPairs(e), e["description"], <<>>)
    /\ decoded = None
    /\ NoStore
    /\ NoFolders
    /\ NoSharing
    /\ NoBuild

NextEntryFile == WriteCatalogEntry

SpecEntryFile == InitEntryFile /\ [][NextEntryFile]_vars

(***************************************************************************)
(* Claims about EntryData.merge.                                           *)
(***************************************************************************)
Merged == phase = "merged"

\* the call got past the identity check of line 69
Accepted == Merged /\ outcome \in {"True", "False"}

\* the protected set as the caller names it: the protected argument if given,
\* else the target's protected_fields, before the call
NamedProtected ==
    IF protArg = "caller"
    THEN Range(callerList0)
    ELSE Range(target0["protected_fields"].val)

\* the effective protected set of the merge contract: the named set and,
\* implicitly, entry_id, entry_type and protected_fields
EffectiveProtected == NamedProtected \cup {"entry_id", "entry_type", "protected_fields"}

Unprotected == FieldSet(cls) \ EffectiveProtected

\* C1: a field named in the protected set (the protected argument if given,
\* else the target's protected_fields) keeps its value on the target through a
\* merge of a record with the same entry_id, whatever the incoming value.
C1_ProtectionInvariant ==
    (Merged /\ PyEq(entry["entry_id"], target0["entry_id"]))
        => \A f \in NamedProtected \cap FieldSet(cls) : target[f] = target0[f]

C1_Witness ==
    /\ Accepted /\ ~selfMerge
    /\ PyEq(entry["entry_id"], target0["entry_id"])
    /\ "theme" \in NamedProtected \cap FieldSet(cls)
    /\ entry["theme"] # target0["theme"]
    /\ Truthy(entry["theme"])
    /\ outcome = "True"

\* C2: a merge of records with non-empty, unequal entry_id raises and leaves
\* every field of the target, protected_fields included, as it was.
C2_IdentityGuard ==
    (Merged /\ ~selfMerge
       /\ Truthy(entry["entry_id"]) /\ Truthy(target0["entry_id"])
       /\ ~PyEq(entry["entry_id"], target0["entry_id"]))
        => (outcome = "ValueError" /\ target = target0)

\* C3: merge returns True if and only if the call changed the value of at
\* least one field of the target.
C3_ChangeFlagExact ==
    Accepted => ((outcome = "True") <=> (target # target0))

\* C4: an unprotected list field holding the same elements in another order,
\* all other fields agreeing, is no change: merge returns False and the
\* target's list keeps its value.
C4_ListsUnordered ==
    \A f \in Unprotected :
        (/\ Accepted /\ ~selfMerge
         /\ target0[f].tag = "list" /\ entry[f].tag = "list"
         /\ Range(target0[f].val) = Range(entry[f].val)
         /\ \A g \in FieldSet(cls) \ {f, "protected_fields"} : entry[g] = target0[g])
            => (outcome = "False" /\ target[f] = target0[f])

\* C5: merge(A, A) with the protected argument omitted returns False and
\* leaves every field of A, protected_fields included, as it was.
C5_NoOpMerge ==
    (Merged /\ selfMerge /\ protArg = "None")
        => (outcome = "False" /\ target = target0)

\* C6: entry_id and entry_type are implicitly protected: an accepted merge
\* leaves both as they were, whatever list names the protected fields.
C6_ImplicitProtection ==
    Accepted => /\ target["entry_id"] = target0["entry_id"]
                /\ target["entry_type"] = target0["entry_type"]

\* C7: merge changes neither the target's protected_fields nor a list the
\* caller passed as protected.
C7_PolicyUnchanged ==
    Merged => /\ target["protected_fields"] = target0["protected_fields"]
              /\ callerList = callerList0

\* C8: an unprotected field that is set on the target and None or empty on the
\* incoming record takes the incoming empty value, and merge returns True.
C8_EmptyOverwrites ==
    \A f \in Unprotected :
        (Accepted /\ ~selfMerge /\ Truthy(target0[f]) /\ ~Truthy(entry[f]))
            => (target[f] = entry[f] /\ outcome = "True")

C8_Witness ==
    /\ Accepted /\ ~selfMerge
    /\ "theme" \in Unprotected /\ "topics" \in Unprotected
    /\ Truthy(target0["theme"]) /\ entry["theme"] = None /\ target["theme"] = None
    /\ Truthy(target0["topics"]) /\ entry["topics"] = List(<<>>)
    /\ target["topics"] = List(<<>>)
    /\ outcome = "True"

\* the incoming record is empty or None in every unprotected field
IncomingAllEmpty == \A f \in Unprotected : ~Truthy(entry[f])

\* C9 as stated: merging an incoming record whose unprotected fields are all
\* empty returns False and leaves every field of the target unchanged.
C9_AllEmptyIsNoOp ==
    (Accepted /\ ~selfMerge /\ IncomingAllEmpty)
        => (outcome = "False" /\ target = target0)

\* C9 as amended: such a merge returns False only when every unprotected field
\* of the target already equals the incoming value; an unprotected field that
\* differs (it is set on the target) takes the incoming empty value and merge
\* returns True.  With entry_id and entry_type agreeing too, equal unprotected
\* fields give False and the merged fields keep their values.
C9_AllEmptyOverwrites ==
    (Accepted /\ ~selfMerge /\ IncomingAllEmpty)
        => /\ \A f \in Unprotected : target[f] = entry[f]
           /\ (\E f \in Unprotected : target0[f] # entry[f]) => outcome = "True"
           /\ (/\ \A f \in Unprotected \cup {"entry_id", "entry_type"} :
                     target0[f] = entry[f])
                 => /\ outcome = "False"
                    /\ \A f \in FieldSet(cls) \ {"protected_fields"} :
                           target[f] = target0[f]

C9_Witness ==
    /\ Accepted /\ ~selfMerge /\ IncomingAllEmpty
    /\ "description" \in Unprotected
    /\ Truthy(target0["description"]) /\ target["description"] = None
    /\ outcome = "True"
(***************************************************************************)
(* Claims about the text codec.                                            *)
(***************************************************************************)
\* a record was written and read back
ReadBack == phase = "read" /\ file # "missing"

\* equal values, lists compared as unordered collections
SameUnordered(a, b) ==
    IF a.tag = "list" /\ b.tag = "list"
    THEN Range(a.val) = Range(b.val) /\ Len(a.val) = Len(b.val)
    ELSE a = b

\* C10: write_entry followed by read_entry with the record's class returns a
\* record whose every field equals the written record's, lists unordered.
C10_RoundTrip ==
    ReadBack => /\ outcome = "returned"
                /\ \A f \in FieldSet(cls) : SameUnordered(decoded[f], target[f])

(***************************************************************************)
(* Claims about the persistence store.                                     *)
(***************************************************************************)
\* a save_entry call has returned or raised
Saved == phase = "saved"

\* the stored text opens with a delimiter and its header block is closed by
\* a second one
HeaderTerminated(text) ==
    /\ text # <<>> /\ IsDelimiter(Head(text))
    /\ Len(SplitOn(text, <<>>)) >= 3

\* the lines between the first two delimiters of a stored text
HeaderBlock(text) == Head(Tail(SplitOn(text, <<>>)))

\* the characters after the second delimiter
BodyOf(text) == JoinOn(Tail(Tail(SplitOn(text, <<>>))))

HeaderKeys(text) == {HeaderBlock(text)[i].key : i \in 1..Len(HeaderBlock(text))}

\* the value the stored text holds for field f: the body for description,
\* the header line of f for any other field
DiskValue(text, f) ==
    IF f = "description" THEN Str(BodyOf(text)) ELSE LineOf(HeaderBlock(text), f).value

\* the value of field f of record e as a file holds it: a description that
\* is None or empty is an empty body
Carried(e, f) ==
    IF f = "description" /\ ~Truthy(e[f]) THEN Str(<<>>) ELSE e[f]

\* the stored text holds the field values of record e and nothing else
HoldsExactly(c, text, e) ==
    /\ HeaderTerminated(text)
    /\ \A i \in 1..Len(HeaderBlock(text)) : HeaderBlock(text)[i].kind = "yaml"
    /\ HeaderKeys(text) = FieldSet(c) \ {"description"}
    /\ Len(HeaderBlock(text)) = Cardinality(HeaderKeys(text))
    /\ \A f \in FieldSet(c) : DiskValue(text, f) = Carried(e, f)

\* C11: read_entry on a filename that does not exist returns None without
\* raising, and a save_entry of record R to such a filename succeeds and
\* creates the file holding exactly R's field values: nothing is merged.
C11_MissingFileCreates ==
    (Saved /\ before = "missing")
        => /\ ReadEntryResult(cls, before) = [error |-> "none", value |-> None]
           /\ outcome = "saved"
           /\ filename \in DOMAIN store
           /\ HoldsExactly(cls, store[filename], entry)

C11_Witness ==
    /\ Saved /\ before = "missing" /\ outcome = "saved"
    /\ cls = "BookEntryData"
    /\ saves = 2
    /\ Cardinality(DOMAIN store) = 2
    /\ entry["theme"] = W("h")
    /\ DiskValue(store[filename], "theme") = W("h")
    /\ DiskValue(store[filename], "title") = entry["title"]

\* the stored text opens with a delimiter that no second delimiter closes
Unterminated(text) ==
    /\ text # "missing" /\ text # <<>> /\ IsDelimiter(Head(text))
    /\ Len(SplitOn(text, <<>>)) < 3

\* C12: a stored file whose header is unterminated is rejected: read_markdown
\* and read_entry on it end in an error and return no header or body decoded
\* from it, and a save_entry to it ends in that error and leaves the file as
\* it was.
C12_UnterminatedRejected ==
    /\ \A fn \in DOMAIN store :
          Unterminated(store[fn])
              => /\ ReadMarkdown(store[fn]).error # "none"
                 /\ ReadEntryResult(cls, store[fn]).error # "none"
    /\ (Saved /\ Unterminated(before))
          => (outcome # "saved" /\ store[filename] = before)

\* the fields the record stored in text names in its protected_fields
DiskProtected(c, text) ==
    Range(DiskValue(text, "protected_fields").val) \cap FieldSet(c)

\* C13: from an empty store, after every save_entry call each field named in
\* the protected_fields of the record on disk still holds the value the first
\* save of that file wrote, whatever the later incoming records carried.
C13_StoredProtectionsKept ==
    \A fn \in DOMAIN store :
        \A f \in DiskProtected(cls, store[fn]) :
            DiskValue(store[fn], f) = DiskValue(first[fn], f)

\* the fields the record stored in text does not protect, the implicitly
\* protected entry_id, entry_type and protected_fields set aside
DiskUnprotected(c, text) ==
    FieldSet(c) \ (DiskProtected(c, text) \cup {"entry_id", "entry_type", "protected_fields"})

\* C14: after every save_entry call of a sequence on one filename, each field
\* the record on disk does not protect holds the value the latest incoming
\* record carried: the saves take effect in call order, each on the result
\* of the one before.
C14_SavesCumulative ==
    Saved => /\ filename \in DOMAIN store
             /\ \A f \in DiskUnprotected(cls, store[filename]) :
                    DiskValue(store[filename], f) = Carried(entry, f)

\* str.lower(), on the words the drawn ids are made of
Lower(w) == IF w = "X" THEN "x" ELSE w

LowerStr(chunks) == [i \in 1..Len(chunks) |-> Lower(chunks[i])]

\* C16: the filename of a record that is no list is its entry_type, "_", its
\* entry_id lower-cased and ".md"; hence records of one type whose ids differ
\* in case only are saved to one file.
C16_FilenameLowerCased ==
    (Saved /\ cls # "ListEntryData")
        => /\ filename = entry["entry_type"].val \o <<"_">>
                             \o LowerStr(entry["entry_id"].val) \o <<".md">>
           /\ \A fn \in DOMAIN store \ {filename} :
                  LowerStr(DiskValue(store[fn], "entry_id").val)
                      # LowerStr(entry["entry_id"].val)

(***************************************************************************)
(* Claims about the file write.                                            *)
(***************************************************************************)
\* two file texts are the same, "missing" being the text of no file
SameText(a, b) ==
    IF a = "missing" THEN b = "missing"
    ELSE IF b = "missing" THEN FALSE
    ELSE a = b

\* C15: a save makes at most one write to the file, and if it fails at any
\* step the file holds either all of its previous content or all of the new
\* header and body, never a part of the new text.
C15_NoPartialWrite ==
    /\ WritesAt(phase) <= 1
    /\ phase = "failed" => \/ SameText(file, before)
                           \/ SameText(file, WriteEntryText(cls, target, <<>>))

(***************************************************************************)
(* Claims about construction.                                              *)
(***************************************************************************)
Constructed == phase = "constructed"

\* the argument f was left out
LeftOut(f) == f \notin DOMAIN entry

\* the arguments are invalid in one of the ways named by C17
InvalidArguments ==
    \/ ~LeftOut("entry_type") /\ entry["entry_type"] \notin EntryTypes
    \/ ~LeftOut("entry_id") /\ entry["entry_id"] = Str(<<>>)
    \/ LeftOut("title")
    \/ entry["title"] = Str(<<>>)
    \/ cls = "LinkEntryData" /\ (LeftOut("url") \/ LeftOut("domain"))

C18_EmptyAuthorRejected ==
    (Constructed /\ cls = "CatalogEntry" /\ ~LeftOut("author")
       /\ entry["author"] = List(<<>>))
        => outcome = "ValidationError"

(***************************************************************************)
(* Claims about Folder.                                                    *)
(***************************************************************************)
\* C19: constructing a Folder with default arguments creates no directory:
\* a directory is on disk only after an explicit create() (or create=True),
\* and until then the repr of its Folder reports it as non-existent.
C19_DefaultDoesNotCreate ==
    /\ dirs \subseteq created
    /\ \A p \in folders \ created : ReprOf(p) = "non-existent"

(***************************************************************************)
(* Claims about CatalogEntry.merge.                                        *)
(***************************************************************************)
\* the merged fields the default protected list names
LegacyKept ==
    {"theme", "subjects", "tags", "location", "purchase_date", "entry_creation_date"}

C27_RecordsIndependent ==
    [][/\ (phase' = "modified" /\ entry' # entry) => target' = target
       /\ (phase' = "modified" /\ target' # target) => entry' = entry
       /\ (phase' = "merged" /\ ~selfMerge) => entry' = entry]_vars

C22_ExistingFileMerged ==
    (Saved /\ outcome = "saved") =>
        IF SameText(before, "missing")
        THEN target = entry
        ELSE \A r \in {MergeCall(cls, target0, entry, FALSE, "own", <<>>, prevent)} :
                target = r.obj

\* C28: saving is idempotent on the stored record: after a save of record R
\* that succeeded, saving R once more under the same filename succeeds, its
\* merge reports no change, and the file it leaves decodes to the same field
\* values as the file the first save left.
C28_SaveIdempotent ==
    (Saved /\ outcome = "saved") =>
        \A again \in {SaveEntryResult(cls, store[filename], entry, prevent)} :
            /\ again.error = "none"
            /\ ~again.changed
            /\ ReadEntryResult(cls, WriteEntryText(cls, again.written, <<>>))
                   = ReadEntryResult(cls, store[filename])

(***************************************************************************)
(* Claims about the header Folder.write_markdown writes.                   *)
(***************************************************************************)
\* the mapping write_entry hands to write_markdown for the record written
HeaderInput == DelKey(ModelDump(cls, target), "description")

\* the position of key k in the mapping pairs
InputPosition(pairs, k) == CHOOSE i \in 1..Len(pairs) : pairs[i][1] = k

\* C24: the written header holds exactly the keys of the input mapping, each
\* once with its input value; the keys named in top_attributes come first, in
\* the relative order they have in the input, then all other keys in their
\* input order; with no top_attributes the input order is kept.
C24_HeaderOrdering ==
    phase = "written" =>
        \A hdr \in {HeaderBlock(file)} : \A input \in {HeaderInput} :
        \A pos \in {[i \in 1..Len(hdr) |-> InputPosition(input, hdr[i].key)]} :
           /\ Len(hdr) = Len(input)
           /\ \A n \in 1..Len(input) :
                 Cardinality({i \in 1..Len(hdr) :
                     hdr[i] = YamlLine(input[n][1], input[n][2])}) = 1
           /\ \A i, j \in 1..Len(hdr) :
                 i < j => /\ hdr[j].key \in Range(callerList)
                                => hdr[i].key \in Range(callerList)
                          /\ (hdr[i].key \in Range(callerList)
                                <=> hdr[j].key \in Range(callerList))
                                => pos[i] < pos[j]
           /\ callerList = <<>> => hdr = YamlDump(input)

\* top_attributes lists title before entry_id; the header opens with entry_id,
\* title, entry_type
C24_Witness ==
    /\ phase = "written"
    /\ callerList = <<"title", "entry_id">>
    /\ HeaderBlock(file)[1].key = "entry_id"
    /\ HeaderBlock(file)[2].key = "title"
    /\ HeaderBlock(file)[3].key = "entry_type"

\* C23: the stored entry_creation_date is the date the record was first
\* created: after every save of a sequence whose incoming records are
\* constructed on later and later dates, the entry_creation_date on disk is
\* the one the first save of that file wrote.
C23_CreationDateKept ==
    \A fn \in DOMAIN store :
        DiskValue(store[fn], "entry_creation_date")
            = DiskValue(first[fn], "entry_creation_date")

(***************************************************************************)
(* Claims about list records and the catalog build.                        *)
(***************************************************************************)
\* C25: type_count is a derived tally: every list record reached through
\* construction, append, remove and make_theme_lists maps each entry_type to
\* the number of its list_items of that type, and holds no list record among
\* its list_items.
C25_TypeCountDerived ==
    (cls = "ListEntryData" /\ target # None) =>
        /\ target["type_count"] = Counter(target["list_items"].val)
        /\ \A i \in 1..Len(target["list_items"].val) :
              target["list_items"].val[i]["entry_type"] # W("list")

\* the pairs the build has taken, in order
Yielded == SubSeq(collected, 1, yielded)

\* the folder names of the catalog, by entry_type
TypeFolders ==
    [book |-> "books", audiobook |-> "audiobooks", list |-> "lists", link |-> "links"]

\* C21: every pair a collector yields leads to exactly one save of its record
\* into the folder of its entry_type, whether the pair has no cover bytes, the
\* record no cover_filename, or the cover file exists already: the n-th save
\* call of the build is the save of the n-th pair's record, no other call
\* saves that record, and the file is in that folder when the call returns.
C21_SavedWhateverTheImage ==
    \A n \in 1..yielded :
        \A r \in {collected[n].record} :
            /\ Len(saveCalls) >= n
            /\ saveCalls[n] = [folder |-> TypeFolders[r["entry_type"].val[1]],
                               filename |-> Filename(r), data |-> r]
            /\ Cardinality({i \in 1..Len(saveCalls) : saveCalls[i].data = r}) = 1
            /\ (n < yielded \/ outcome = "none" \/ phase = "built")
                  => <<saveCalls[n].folder>> \o Filename(r) \in DOMAIN store

\* a build took a pair without bytes, a pair without cover_filename and a pair
\* whose cover file existed, wrote no image and saved the three records
C21_Witness ==
    /\ phase = "built"
    /\ yielded = 3
    /\ ~override
    /\ images = [n \in {W("c")} |-> OldCover]
    /\ \E i, j, k \in 1..3 :
          /\ collected[i].cover_bytes = None
          /\ collected[j].cover_filename = None
          /\ collected[k].cover_bytes # None /\ collected[k].cover_filename = W("c")
    /\ \A n \in 1..3 :
          <<TypeFolders[collected[n].record["entry_type"].val[1]]>>
              \o Filename(collected[n].record) \in DOMAIN store

\* the records the build saved for the pairs it took
SavedRecords == {collected[n].record : n \in 1..yielded}

\* the file of the theme list of theme t
ThemeListKey(t) == <<"lists", "theme", "_">> \o t.val \o <<".md">>

\* C29: after a build, for every theme t the list_items of the theme list t
\* are exactly the records the build saved whose theme is t, each once: a book
\* and an audiobook of one entry_id and one theme are both in it, and a record
\* without a theme is in no list.
C29_ThemeListsExact ==
    phase = "built" =>
        /\ \A t \in {r["theme"] : r \in SavedRecords} \ {None} :
              /\ ThemeListKey(t) \in DOMAIN store
              /\ \A items \in {DiskValue(store[ThemeListKey(t)], "list_items").val} :
                    /\ Range(items) = {r \in SavedRecords : r["theme"] = t}
                    /\ Len(items) = Cardinality(Range(items))
        /\ \A k \in DOMAIN store :
              k[1] = "lists" =>
                 k \in {ThemeListKey(r["theme"]) : r \in {q \in SavedRecords : q["theme"] # None}}

(***************************************************************************)
(* Claims about CatalogEntryMarkdownFile.write.                            *)
(***************************************************************************)
\* C30: write persists the catalog entry held in memory: after write(), when
\* there was no file and when there was one, the header of the file holds the
\* current value of every field of catalog_entry but the description, and the
\* body holds catalog_entry.description.
C30_WritePersistsEntry ==
    phase = "written" =>
        /\ outcome = "none"
        /\ ~SameText(file, "missing")
        /\ HeaderTerminated(file)
        /\ \A f \in CatalogEntryFieldSet \ {"description"} :
              /\ f \in HeaderKeys(file)
              /\ DiskValue(file, f) = target[f]
        /\ target["description"] # None
        /\ BodyOf(file) = target["description"].val \o <<"\n">>

====
